---- MODULE Spec2Model ----
(***************************************************************************)
(* Model of scraper.py: the catalog watcher that loads state.json, walks   *)
(* the kkiosk collections and the category pages of the other sites,       *)
(* compares every product record with its stored entry, collects the       *)
(* [NEW] / [PRICE] / [IMAGE] / [TEXT] lines, mails them and saves the      *)
(* state.                                                                  *)
(*                                                                         *)
(* Python's None is the empty tuple and a present optional value x is the  *)
(* one-element tuple <<x>>, so that optional values of any type compare.   *)
(***************************************************************************)
EXTENDS Naturals, Sequences, FiniteSets, TLC

None == <<>>
Some(x) == <<x>>

\* ------------------------------------------------------------------ bounds
\* Records observed over all runs of a behaviour (replayed batches are free).
MaxRecords == 2
\* Runs of run() in a behaviour.
MaxRuns == 2

\* ------------------------------------------------------------ configuration
\* The first collection of the list; every collection is handled alike.
KKIOSK_URLS ==
  << "https://tabak.kkiosk.ch/collections/cigarettes-1" >>

\* The first category page of the list: (site, category_url).
OTHER_TARGETS ==
  << <<"ploom", "https://www.ploom.ch/en/shop/sticks">> >>

\* ------------------------------------------------- what the sites can show
\* Answers of the network to a GET: a timeout or connection error, an HTTP
\* error status, or a body.
NetFailures == {"timeout", "http_error"}
ImageBodies == {"pngA", "rawB"}
Whitespace == {" ", "\n", "\t"}

\* The image of a record: its image_url and the answer its GET gets; a record
\* without image_url makes no request.
NoImage == <<None, "no_request">>
AllImages ==
  {NoImage}
  \cup {<<Some("u1"), net>> : net \in NetFailures \cup ImageBodies}
  \cup {<<Some("u2"), net>> : net \in ImageBodies}

\* A product card is the sequence of its text nodes, each a sequence of
\* characters.
CardX == << <<"x">> >>
AllCards == { <<>>, << <<" ">> >>, CardX, << <<"x", " ", " ", "y">> >>,
              << <<"x">>, <<" ", "y">> >> }

\* What the sites show during a behaviour: one catalog, in which one aspect
\* of the products varies over all its values while the others vary little.
Steady ==
  [skus |-> {"a"}, names |-> {Some("n1")}, prices |-> {Some(100)},
   images |-> {<<Some("u1"), "pngA">>}, cards |-> {CardX},
   urls |-> {"https://tabak.kkiosk.ch/products/h"}]

Catalogs ==
  { [Steady EXCEPT !.skus = {"a", "b"}, !.prices = {None, Some(0), Some(100)}],
    [Steady EXCEPT !.images = AllImages],
    [Steady EXCEPT !.cards = AllCards],
    [Steady EXCEPT !.names = {None, Some("n1"), Some("n2")},
                   !.urls = {"https://tabak.kkiosk.ch/products/h",
                             "https://tabak.kkiosk.ch/products/h2"}],
    [Steady EXCEPT !.prices = {Some(0), Some(100)},
                   !.images = {<<Some("u1"), "timeout">>, <<Some("u2"), "rawB">>},
                   !.cards = {<<>>, CardX}] }

\* ------------------------------------------------------------------- utils
\* hashlib.sha1(...).hexdigest(): a digest is never empty and, the hash being
\* collision resistant, two digests are equal only for equal inputs.
Sha1(x) == <<"sha1", x>>

\* price_str: "CHF 1.00" is the amount split in francs and two-digit cents.
price_str(cents) ==
  IF cents # None THEN <<"CHF", cents[1] \div 100, cents[1] % 100>>
  ELSE <<"CHF -">>

\* Image.open(...).convert("RGB").resize((128,128)).tobytes(): the pixels of a
\* decodable body, None for a body PIL cannot decode.
Pixels(b) ==
  CASE b = "pngA" -> Some("A")
    [] OTHER -> None

hash_bytes_as_image(b) ==
  IF Pixels(b) # None THEN Sha1(<<"pixels", Pixels(b)[1]>>)
  ELSE Sha1(<<"bytes", b>>)

\* get: the body, or None when requests.get or raise_for_status raises.
get(net) == IF net \in NetFailures THEN None ELSE Some(net)

\* Python truthiness of an optional string.
Truthy(s) == s # None /\ s # Some("")

\* As fetch_img_hash without its try/except: a failed GET is hashed as an
\* empty body.
fetch_img_hash_unguarded(url, net) ==
  IF ~Truthy(url) THEN None
  ELSE hash_bytes_as_image(IF get(net) = None THEN "" ELSE get(net)[1])

fetch_img_hash(url, net) ==
  IF ~Truthy(url) THEN None
  ELSE IF get(net) = None THEN None
  ELSE hash_bytes_as_image(get(net)[1])

\* str.strip() of a sequence of characters.
RECURSIVE LStrip(_)
LStrip(s) == IF s # <<>> /\ Head(s) \in Whitespace THEN LStrip(Tail(s)) ELSE s
RECURSIVE RStrip(_)
RStrip(s) ==
  IF s # <<>> /\ s[Len(s)] \in Whitespace THEN RStrip(SubSeq(s, 1, Len(s) - 1)) ELSE s
Strip(s) == RStrip(LStrip(s))

\* el.get_text(" ", strip=True): the stripped, non-empty text nodes joined
\* with one space.
RECURSIVE get_text(_)
get_text(el) ==
  IF el = <<>> THEN <<>>
  ELSE LET h == Strip(Head(el))
           t == get_text(Tail(el))
       IN IF h = <<>> THEN t
          ELSE IF t = <<>> THEN h
          ELSE h \o <<" ">> \o t

\* re.sub(r"\s+", " ", text)
RECURSIVE CollapseWs(_)
CollapseWs(s) ==
  IF s = <<>> THEN <<>>
  ELSE IF Head(s) \in Whitespace
       THEN <<" ">> \o CollapseWs(LStrip(Tail(s)))
       ELSE <<Head(s)>> \o CollapseWs(Tail(s))

card_text_hash(el) == Sha1(CollapseWs(get_text(el)))

\* f"{site}:{sku}"
Key(site, sku) == site \o ":" \o sku

\* ------------------------------------------------------------------- state
VARIABLES
  file,      \* state.json on disk: [exists, data], data a sequence of tokens
  state,     \* run(): the dict loaded from the file, updated in place
  changes,   \* run(): the lines collected for the mail
  now,       \* run(): int(time.time()) of the current run
  pc,        \* where run() stands
  ti,        \* index of the current target in its list
  fetched,   \* whether the current target's records have been fetched
  mail,      \* what became of send_email in this run
  mailed,    \* the lines handed to send_email in this run
  crash,     \* why run() raised, if it did
  runs,      \* runs started so far
  used,      \* records observed so far
  step,      \* history: the last record processed and the entry it met
  loaded,    \* history: the dict as load_state returned it
  batch,     \* history: the records of this run, with their image answers
  prev,      \* history: the batch of the last run that ran to its end
  replay,    \* history: whether this run replays prev
  shows      \* the catalog the sites show

vars == << file, state, changes, now, pc, ti, fetched, mail, mailed, crash,
           runs, used, step, loaded, batch, prev, replay, shows >>

EmptyDict == [k \in {} |-> None]

\* ------------------------------------------------------------- state store
Sites == {"kkiosk"} \cup {OTHER_TARGETS[i][1] : i \in 1..Len(OTHER_TARGETS)}

\* json.dump(..., sort_keys=True) writes the keys in string order.
SortedSites == <<"glo", "kkiosk", "ploom", "velo", "vuse">>
SortedSkus == <<"a", "b", "c">>
SortedKeys ==
  [i \in 1..(Len(SortedSites) * Len(SortedSkus)) |->
     Key(SortedSites[((i - 1) \div Len(SortedSkus)) + 1],
         SortedSkus[((i - 1) % Len(SortedSkus)) + 1])]

\* An entry's fields in string order; the fields the fetchers may leave None,
\* whose values the model boxes; the fields that hold a digest or None.
SortedFields ==
  << "image_hash", "image_url", "last_seen", "name", "price_cents", "site",
     "sku", "text_hash", "url" >>
BoxedFields == {"name", "price_cents", "image_url"}
HashFields == {"image_hash", "text_hash"}
NumberFields == {"price_cents", "last_seen"}

JsonType(f) == IF f \in NumberFields THEN "number" ELSE "string"

\* As JsonValue with None written as the text str(None).
JsonValueNoNull(f, v) ==
  IF f \in BoxedFields
  THEN (IF v = None THEN <<"string", "None">> ELSE <<JsonType(f), v[1]>>)
  ELSE <<JsonType(f), v>>

\* The JSON text of a field's value: null, a number or a string (a digest is
\* a string).
JsonValue(f, v) ==
  IF f \in BoxedFields
  THEN (IF v = None THEN <<"null">> ELSE <<JsonType(f), v[1]>>)
  ELSE IF f \in HashFields
       THEN (IF v = None THEN <<"null">> ELSE <<JsonType(f), v>>)
       ELSE <<JsonType(f), v>>

\* The Python value json.load makes of a JSON text.
PyValue(f, j) ==
  IF j = <<"null">> THEN None
  ELSE IF f \in BoxedFields THEN Some(j[2]) ELSE j[2]

\* An entry as a JSON object with sorted keys, and back.
JsonObject(e) ==
  [i \in 1..Len(SortedFields) |->
     <<SortedFields[i], JsonValue(SortedFields[i], e[SortedFields[i]])>>]

PyDict(o) ==
  [f \in {o[i][1] : i \in DOMAIN o} |->
     LET i == CHOOSE j \in DOMAIN o : o[j][1] = f IN PyValue(f, o[i][2])]

\* The keys of a dict in the order sort_keys gives them.
DumpKeys(d) == SelectSeq(SortedKeys, LAMBDA k : k \in DOMAIN d)

\* The text json.dump produces for a dict is a sequence of DumpLen tokens: the
\* opening brace, one item per key in key order, the closing brace.
DumpLen(d) == Len(DumpKeys(d)) + 2

DumpToken(d, n) ==
  IF n = 1 THEN <<"{">>
  ELSE IF n = DumpLen(d) THEN <<"}">>
  ELSE <<DumpKeys(d)[n - 1], JsonObject(d[DumpKeys(d)[n - 1]])>>

Dump(d) == [n \in 1..DumpLen(d) |-> DumpToken(d, n)]

\* json.load accepts a complete document only.
WellFormed(data) ==
  /\ Len(data) >= 2
  /\ data[1] = <<"{">>
  /\ data[Len(data)] = <<"}">>

Loads(data) ==
  [k \in {data[i][1] : i \in 2..(Len(data) - 1)} |->
     LET i == CHOOSE j \in 2..(Len(data) - 1) : data[j][1] = k
     IN PyDict(data[i][2])]

\* load_state: the dict of the file, {} when there is no file; json.load
\* raises on a file that is no complete document.
LoadRaises(f) == f.exists /\ ~WellFormed(f.data)
load_state(f) == IF f.exists THEN Loads(f.data) ELSE EmptyDict

\* ------------------------------------------------------------- diff engine
Line(kind, site, p, detail, url) ==
  [kind |-> kind, site |-> site, sku |-> p.sku, name |-> p.name,
   detail |-> detail, url |-> url]

\* {**p, "image_hash": img_hash, "last_seen": now}
NewEntry(p, img_hash, t) ==
  [site |-> p.site, sku |-> p.sku, name |-> p.name,
   price_cents |-> p.price_cents, image_url |-> p.image_url, url |-> p.url,
   text_hash |-> p.text_hash, image_hash |-> img_hash, last_seen |-> t]

\* As PriceFires without the "is not None" test.
PriceFiresAnyDifference(old, p) ==
  old.price_cents # p.price_cents

\* As PriceFires with a truthiness test in place of "is not None".
PriceFiresTruthy(old, p) ==
  old.price_cents # p.price_cents /\ p.price_cents # None
  /\ p.price_cents # Some(0)

PriceFires(old, p) ==
  old.price_cents # p.price_cents /\ p.price_cents # None

\* As ImageFires without the comparison with the stored hash.
ImageFiresAnyHash(old, img_hash) ==
  img_hash # None

\* As ImageFires without the test that there is a hash.
ImageFiresOnNone(old, img_hash) ==
  img_hash # old.image_hash

ImageFires(old, img_hash) ==
  img_hash # None /\ img_hash # old.image_hash

\* As TextFires without the comparison with the stored hash.
TextFiresAnyHash(old, p) ==
  p.text_hash # None

\* p.get("text_hash") and p["text_hash"] != old.get("text_hash"): a digest is
\* never the empty string.
TextFires(old, p) ==
  p.text_hash # None /\ p.text_hash # old.text_hash

PriceLine(old, p, site, url) ==
  Line("PRICE", site, p, <<price_str(old.price_cents), price_str(p.price_cents)>>, url)

\* As Tracked without the assignment of last_seen.
TrackedNoStamp(old, p, img_hash, t, withText) ==
  LET e1 == IF old.price_cents # p.price_cents /\ p.price_cents # None
            THEN [old EXCEPT !.price_cents = p.price_cents] ELSE old
      e2 == IF img_hash # None /\ img_hash # e1.image_hash
            THEN [e1 EXCEPT !.image_url = p.image_url, !.image_hash = img_hash]
            ELSE e1
  IN IF withText /\ p.text_hash # None /\ p.text_hash # e2.text_hash
     THEN [e2 EXCEPT !.text_hash = p.text_hash] ELSE e2

\* As Tracked with last_seen assigned only when a sensor has fired.
TrackedStampOnChange(old, p, img_hash, t, withText) ==
  LET e == TrackedNoStamp(old, p, img_hash, t, withText)
  IN IF e = old THEN old ELSE [e EXCEPT !.last_seen = t]

\* As Tracked with the name and url of the record copied to the entry.
TrackedRenames(old, p, img_hash, t, withText) ==
  [TrackedNoStamp(old, p, img_hash, t, withText)
     EXCEPT !.last_seen = t, !.name = p.name, !.url = p.url]

\* The else branch of the loops: the entry after the sensors have run.
Tracked(old, p, img_hash, t, withText) ==
  LET e1 == IF PriceFires(old, p)
            THEN [old EXCEPT !.price_cents = p.price_cents] ELSE old
      e2 == IF ImageFires(e1, img_hash)
            THEN [e1 EXCEPT !.image_url = p.image_url, !.image_hash = img_hash]
            ELSE e1
      e3 == IF withText /\ TextFires(e2, p)
            THEN [e2 EXCEPT !.text_hash = p.text_hash] ELSE e2
  IN [e3 EXCEPT !.last_seen = t]

\* The lines the else branch appends, in the order of the code.
TrackedLines(old, p, img_hash, site, url, withText) ==
  (IF PriceFires(old, p) THEN <<PriceLine(old, p, site, url)>> ELSE <<>>)
  \o (IF ImageFires(old, img_hash)
      THEN <<Line("IMAGE", site, p, <<<<"image changed">>>>, url)>> ELSE <<>>)
  \o (IF withText /\ TextFires(old, p)
      THEN <<Line("TEXT", site, p, <<<<"text changed">>>>, url)>> ELSE <<>>)

NewLines(p, site, url) ==
  <<Line("NEW", site, p, <<price_str(p.price_cents)>>, url)>>

\* As Lookup on a dict that forgets its keys.
LookupMissing(d, key) == None

\* state.get(key): None for a missing key.
Lookup(d, key) == IF key \in DOMAIN d THEN Some(d[key]) ELSE None

\* As Body on a dict that keeps the entry of the record's key only.
BodyForgets(d, p, net, site, url, t, withText) ==
  LET key == Key(site, p.sku)
      old == Lookup(d, key)
      img_hash == fetch_img_hash(p.image_url, net)
  IN IF old = None
     THEN [state |-> (key :> NewEntry(p, img_hash, t)),
           lines |-> NewLines(p, site, url)]
     ELSE [state |-> (key :> Tracked(old[1], p, img_hash, t, withText)),
           lines |-> TrackedLines(old[1], p, img_hash, site, url, withText)]

\* One pass of a loop body over record p, whose image GET is answered net.
\* "not old" is true for a missing key only: an entry is never an empty dict.
Body(d, p, net, site, url, t, withText) ==
  LET key == Key(site, p.sku)
      old == Lookup(d, key)
      img_hash == fetch_img_hash(p.image_url, net)
  IN IF old = None
     THEN [state |-> (key :> NewEntry(p, img_hash, t)) @@ d,
           lines |-> NewLines(p, site, url)]
     ELSE [state |-> (key :> Tracked(old[1], p, img_hash, t, withText)) @@ d,
           lines |-> TrackedLines(old[1], p, img_hash, site, url, withText)]

\* ------------------------------------------------------------ the fetchers
\* The records kkiosk_shopify_items_all_variants can return, each with the
\* answer its image GET will get: text_hash is always None.
KkioskRecords(url) ==
  { [p |-> [site |-> "kkiosk", sku |-> sku, name |-> name,
            price_cents |-> price, image_url |-> img[1],
            url |-> u, text_hash |-> None],
     net |-> img[2], card |-> None] :
    sku \in shows.skus, name \in shows.names, price \in shows.prices,
    img \in shows.images, u \in shows.urls }

\* The records scrape_category_with_text can return: url is the category
\* page and text_hash the hash of the card's text.
OtherRecords(site, url) ==
  { [p |-> [site |-> site, sku |-> sku, name |-> name,
            price_cents |-> price, image_url |-> img[1], url |-> url,
            text_hash |-> card_text_hash(card)],
     net |-> img[2], card |-> Some(card)] :
    sku \in shows.skus, name \in shows.names, price \in shows.prices,
    img \in shows.images, card \in shows.cards }

\* ------------------------------------------------------------------- Init
\* A state file as an earlier run over a kkiosk and a ploom product at time 0
\* leaves it.
SeedRecord(site, text_hash) ==
  [site |-> site, sku |-> "a", name |-> Some("n1"), price_cents |-> Some(100),
   image_url |-> Some("u1"),
   url |-> IF site = "kkiosk" THEN "https://tabak.kkiosk.ch/products/h"
           ELSE OTHER_TARGETS[1][2],
   text_hash |-> text_hash]

SeedState ==
  (Key("kkiosk", "a") :>
     NewEntry(SeedRecord("kkiosk", None), hash_bytes_as_image("pngA"), 0))
  @@ (Key("ploom", "a") :>
     NewEntry(SeedRecord("ploom", card_text_hash(CardX)),
              hash_bytes_as_image("pngA"), 0))

Init ==
  /\ file \in { [exists |-> FALSE, data |-> <<>>],
                [exists |-> TRUE, data |-> Dump(SeedState)] }
  /\ state = EmptyDict
  /\ changes = <<>>
  /\ now = 0
  /\ pc = "idle"
  /\ ti = 1
  /\ fetched = FALSE
  /\ mail = "none"
  /\ mailed = None
  /\ crash = "none"
  /\ runs = 0
  /\ used = 0
  /\ step = None
  /\ loaded = EmptyDict
  /\ batch = <<>>
  /\ prev = <<>>
  /\ replay = FALSE
  /\ shows \in Catalogs

\* ---------------------------------------------------------------- actions
Ended == pc \in {"idle", "done", "crashed", "killed"}

RunLocals(t, rp) ==
  /\ changes' = <<>>
  /\ now' = t
  /\ ti' = 1
  /\ fetched' = FALSE
  /\ mail' = "none"
  /\ mailed' = None
  /\ runs' = runs + 1
  /\ step' = None
  /\ batch' = <<>>
  /\ replay' = rp

\* run(), lines 217-219: load the state, start with no changes, read the
\* clock. A replaying run is one that follows a completed run and is given
\* that run's batch again.
StartRun ==
  /\ Ended
  /\ runs < MaxRuns
  /\ ~LoadRaises(file)
  /\ \E rp \in BOOLEAN :
       /\ rp => (pc = "done" /\ prev # <<>>)
       /\ RunLocals(now + 1, rp)
  /\ state' = load_state(file)
  /\ loaded' = load_state(file)
  /\ pc' = "kkiosk"
  /\ crash' = "none"
  /\ UNCHANGED <<file, used, prev, shows>>

\* run(), line 217, when json.load raises: run() ends with the exception.
StartRunRaises ==
  /\ Ended
  /\ runs < MaxRuns
  /\ LoadRaises(file)
  /\ RunLocals(now, FALSE)
  /\ state' = EmptyDict
  /\ loaded' = EmptyDict
  /\ pc' = "crashed"
  /\ crash' = "load"
  /\ UNCHANGED <<file, used, prev, shows>>

Targets(phase) == IF phase = "kkiosk" THEN KKIOSK_URLS ELSE OTHER_TARGETS

\* The next record of the batch being replayed, if it belongs to this target.
ReplayNext ==
  IF Len(batch) < Len(prev) /\ prev[Len(batch) + 1].phase = pc
     /\ prev[Len(batch) + 1].ti = ti
  THEN Some(prev[Len(batch) + 1]) ELSE None

\* The fetch of the current target succeeds: kkiosk_shopify_items_all_variants
\* (line 223) or scrape_category_with_text (line 243) returns its records.
FetchTarget ==
  /\ pc \in {"kkiosk", "other"}
  /\ ~fetched
  /\ fetched' = TRUE
  /\ UNCHANGED <<file, state, changes, now, pc, ti, mail, mailed, crash, runs,
                 used, step, loaded, batch, prev, replay, shows>>

\* A GET of the current target raises (lines 92-93, reached from line 116 or
\* line 155): nothing in run() catches it.
FetchTargetRaises ==
  /\ pc \in {"kkiosk", "other"}
  /\ ~fetched
  /\ ~replay
  /\ pc' = "crashed"
  /\ crash' = "fetch"
  /\ UNCHANGED <<file, state, changes, now, ti, fetched, mail, mailed, runs,
                 used, step, loaded, batch, prev, replay, shows>>

\* As Process with the state saved after each record.
ProcessSaves(rec, site, url, withText) ==
  LET r == Body(state, rec.p, rec.net, site, url, now, withText) IN
  /\ state' = r.state
  /\ changes' = changes \o r.lines
  /\ step' = Some([key |-> Key(site, rec.p.sku), p |-> rec.p, net |-> rec.net,
                   card |-> rec.card,
                   img_hash |-> fetch_img_hash(rec.p.image_url, rec.net),
                   old |-> IF Key(site, rec.p.sku) \in DOMAIN state
                           THEN Some(state[Key(site, rec.p.sku)]) ELSE None,
                   n |-> Len(changes)])
  /\ batch' = Append(batch, [phase |-> pc, ti |-> ti, rec |-> rec])
  /\ file' = [exists |-> TRUE, data |-> Dump(r.state)]
  /\ UNCHANGED <<now, pc, ti, fetched, mail, mailed, crash, runs,
                 loaded, prev, replay, shows>>

\* One pass of a loop of run() over record rec: the body, and the history of
\* the step.
Process(rec, site, url, withText) ==
  LET r == Body(state, rec.p, rec.net, site, url, now, withText) IN
  /\ state' = r.state
  /\ changes' = changes \o r.lines
  /\ step' = Some([key |-> Key(site, rec.p.sku), p |-> rec.p, net |-> rec.net,
                   card |-> rec.card,
                   img_hash |-> fetch_img_hash(rec.p.image_url, rec.net),
                   old |-> IF Key(site, rec.p.sku) \in DOMAIN state
                           THEN Some(state[Key(site, rec.p.sku)]) ELSE None,
                   n |-> Len(changes)])
  /\ batch' = Append(batch, [phase |-> pc, ti |-> ti, rec |-> rec])
  /\ UNCHANGED <<file, now, pc, ti, fetched, mail, mailed, crash, runs,
                 loaded, prev, replay, shows>>

\* The record and image answer a loop meets next: any that the site can
\* show, or the next one of the batch being replayed.
Observes(r, records) ==
  IF replay
  THEN ReplayNext # None /\ r = ReplayNext[1].rec
  ELSE used < MaxRecords /\ r \in records

\* run(), lines 224-239, for one record of the current kkiosk collection.
ProcessKkiosk ==
  /\ pc = "kkiosk"
  /\ fetched
  /\ \E r \in KkioskRecords(KKIOSK_URLS[ti]) :
       /\ Observes(r, KkioskRecords(KKIOSK_URLS[ti]))
       /\ Process(r, r.p.site, r.p.url, FALSE)
  /\ used' = IF replay THEN used ELSE used + 1

\* run(), lines 245-266, for one record of the current category page.
ProcessOther ==
  /\ pc = "other"
  /\ fetched
  /\ LET site == OTHER_TARGETS[ti][1]
         url == OTHER_TARGETS[ti][2]
     IN \E r \in OtherRecords(site, url) :
          /\ Observes(r, OtherRecords(site, url))
          /\ Process(r, site, url, TRUE)
  /\ used' = IF replay THEN used ELSE used + 1

\* The inner loop is exhausted: on to the next target, the next loop or the
\* end of the loops.
EndTarget ==
  /\ pc \in {"kkiosk", "other"}
  /\ fetched
  /\ replay => ReplayNext = None
  /\ fetched' = FALSE
  /\ IF ti < Len(Targets(pc)) THEN ti' = ti + 1 /\ pc' = pc
     ELSE ti' = 1 /\ pc' = IF pc = "kkiosk" THEN "other" ELSE "notify"
  /\ UNCHANGED <<file, state, changes, now, mail, mailed, crash, runs, used,
                 step, loaded, batch, prev, replay, shows>>

\* What the SMTP server does to a delivery: it goes through, or one of the
\* four calls of lines 206-209 raises.
SmtpAnswers ==
  {"ok", "connect_error", "starttls_error", "login_error", "sendmail_error"}

\* As send_email with a try that covers the sendmail call only.
send_email_narrow_try(smtp) ==
  IF smtp = "ok" THEN "sent"
  ELSE IF smtp = "sendmail_error" THEN "failed" ELSE "raised"

\* send_email, lines 205-213: every exception of the SMTP calls is caught and
\* printed, so the call returns either way.
send_email(smtp) == IF smtp = "ok" THEN "sent" ELSE "failed"

\* As Notify without the test that there are lines.
NotifyAlways ==
  /\ pc = "notify"
  /\ \E smtp \in SmtpAnswers :
       /\ mailed' = Some(changes)
       /\ mail' = send_email(smtp)
       /\ pc' = IF send_email(smtp) = "raised" THEN "crashed" ELSE "save"
       /\ crash' = IF send_email(smtp) = "raised" THEN "mail" ELSE crash
  /\ UNCHANGED <<file, state, changes, now, ti, fetched, runs, used,
                 step, loaded, batch, prev, replay, shows>>

\* run(), lines 268-272: the lines are mailed if there are any; an exception
\* leaving send_email would end run() before save_state.
Notify ==
  /\ pc = "notify"
  /\ IF changes # <<>>
     THEN \E smtp \in SmtpAnswers :
            /\ mailed' = Some(changes)
            /\ mail' = send_email(smtp)
            /\ pc' = IF send_email(smtp) = "raised" THEN "crashed" ELSE "save"
            /\ crash' = IF send_email(smtp) = "raised" THEN "mail" ELSE crash
     ELSE /\ pc' = "save"
          /\ UNCHANGED <<mail, mailed, crash>>
  /\ UNCHANGED <<file, state, changes, now, ti, fetched, runs, used,
                 step, loaded, batch, prev, replay, shows>>

\* save_state, line 69: open(STATE_FILE, "w") creates or truncates the file.
SaveOpen ==
  /\ pc = "save"
  /\ file' = [exists |-> TRUE, data |-> <<>>]
  /\ pc' = "writing"
  /\ UNCHANGED <<state, changes, now, ti, fetched, mail, mailed, crash, runs,
                 used, step, loaded, batch, prev, replay, shows>>

\* save_state, line 69: json.dump's output reaches the file piece by piece.
SaveWrite ==
  /\ pc = "writing"
  /\ Len(file.data) < DumpLen(state)
  /\ file' = [file EXCEPT
                !.data = Append(@, DumpToken(state, Len(file.data) + 1))]
  /\ UNCHANGED <<state, changes, now, pc, ti, fetched, mail, mailed, crash,
                 runs, used, step, loaded, batch, prev, replay, shows>>

\* save_state returns and run() with it.
SaveDone ==
  /\ pc = "writing"
  /\ Len(file.data) = DumpLen(state)
  /\ file.data = Dump(state)
  /\ pc' = "done"
  /\ prev' = IF replay THEN prev ELSE batch
  /\ UNCHANGED <<file, state, changes, now, ti, fetched, mail, mailed, crash,
                 runs, used, step, loaded, batch, replay, shows>>

\* The process is killed wherever it stands: the file stays as it is, and
\* of the memory of the process only the dicts are kept, as history.
Kill ==
  /\ ~Ended
  /\ pc' = "killed"
  /\ changes' = <<>>
  /\ ti' = 1
  /\ fetched' = FALSE
  /\ mail' = "none"
  /\ mailed' = None
  /\ step' = None
  /\ batch' = <<>>
  /\ UNCHANGED <<file, state, now, crash, runs, used, loaded, prev, replay,
                 shows>>

Next ==
  \/ StartRun
  \/ StartRunRaises
  \/ FetchTarget
  \/ FetchTargetRaises
  \/ ProcessKkiosk
  \/ ProcessOther
  \/ EndTarget
  \/ Notify
  \/ SaveOpen
  \/ SaveWrite
  \/ SaveDone
  \/ Kill

Spec == Init /\ [][Next]_vars

\* ================================================================= claims
\* The last record processed, the lines it appended and its entry now.
S == step[1]
StepLines == SubSeq(changes, S.n + 1, Len(changes))
StepEntry == state[S.key]
CountKind(lines, k) == Cardinality({i \in DOMAIN lines : lines[i].kind = k})
OnTracked == step # None /\ S.old # None
Old == S.old[1]
\* The amount a price_str text stands for.
Cents(text) == IF text = <<"CHF -">> THEN None ELSE Some(text[2] * 100 + text[3])
FileOf(d) == [exists |-> TRUE, data |-> Dump(d)]

\* C1 - Idempotence: a run that is given the batch and the image answers of
\* the run before it, against the state that run saved, emits no line.
C1_Idempotence == replay => changes = <<>>

\* C2 - NEW-once: a record whose key is missing from the state appends exactly
\* one line, a NEW line, and creates an entry holding every field of the
\* record; a key reported NEW is in the saved file at the end of the run; and a
\* record whose key was loaded from the file, or is already in the state,
\* appends no NEW line.
C2_NewOnce ==
  /\ (step # None /\ S.old = None) =>
       /\ Len(StepLines) = 1
       /\ StepLines[1].kind = "NEW"
       /\ \A f \in DOMAIN S.p : StepEntry[f] = S.p[f]
  /\ (step # None /\ (S.old # None \/ S.key \in DOMAIN loaded)) =>
       CountKind(StepLines, "NEW") = 0
  /\ pc = "done" =>
       \A i \in DOMAIN changes :
         changes[i].kind = "NEW" =>
           Key(changes[i].site, changes[i].sku) \in DOMAIN load_state(file)

\* A later run meets a key that an earlier run reported NEW and saved.
C2_Witness ==
  /\ step # None
  /\ runs = 2
  /\ S.key = Key("kkiosk", "b")
  /\ S.key \in DOMAIN loaded
  /\ CountKind(StepLines, "NEW") = 0

\* C3 - Price non-observation: for a tracked key a record whose price_cents
\* is None appends no PRICE line and leaves the stored price_cents as it was.
C3_PriceNone ==
  (OnTracked /\ S.p.price_cents = None) =>
    /\ CountKind(StepLines, "PRICE") = 0
    /\ StepEntry.price_cents = Old.price_cents

C3_Witness ==
  /\ OnTracked
  /\ S.p.price_cents = None
  /\ Old.price_cents = Some(100)
  /\ StepEntry.price_cents = Some(100)

\* C4 - Price change: for a tracked key with stored price a and a record
\* with price b that is not None, b # a gives exactly one PRICE line, which
\* carries a and b, and the stored price becomes b; b = a gives no PRICE line.
C4_PriceChange ==
  (OnTracked /\ S.p.price_cents # None) =>
    IF S.p.price_cents # Old.price_cents
    THEN /\ CountKind(StepLines, "PRICE") = 1
         /\ \A i \in DOMAIN StepLines :
              StepLines[i].kind = "PRICE" =>
                /\ Cents(StepLines[i].detail[1]) = Old.price_cents
                /\ Cents(StepLines[i].detail[2]) = S.p.price_cents
         /\ StepEntry.price_cents = S.p.price_cents
    ELSE /\ CountKind(StepLines, "PRICE") = 0
         /\ StepEntry.price_cents = Old.price_cents

\* A stored price of None meets a price of 0.
C4_Witness ==
  /\ OnTracked
  /\ Old.price_cents = None
  /\ S.p.price_cents = Some(0)
  /\ CountKind(StepLines, "PRICE") = 1
  /\ StepEntry.price_cents = Some(0)

\* C5 - Image change: for a tracked key and a computed hash that is not None,
\* a hash other than the stored one gives exactly one IMAGE line and
\* overwrites image_hash and image_url with the hash and the record's
\* image_url; a hash equal to the stored one gives no IMAGE line and changes
\* neither field.
C5_ImageChange ==
  (OnTracked /\ S.img_hash # None) =>
    IF S.img_hash # Old.image_hash
    THEN /\ CountKind(StepLines, "IMAGE") = 1
         /\ StepEntry.image_hash = S.img_hash
         /\ StepEntry.image_url = S.p.image_url
    ELSE /\ CountKind(StepLines, "IMAGE") = 0
         /\ StepEntry.image_hash = Old.image_hash
         /\ StepEntry.image_url = Old.image_url

\* The image found under a new address has the stored hash.
C5_Witness ==
  /\ OnTracked
  /\ S.img_hash # None
  /\ S.img_hash = Old.image_hash
  /\ S.p.image_url # Old.image_url
  /\ StepEntry.image_url = Old.image_url

\* C6 - Image fetch failure: a GET that raises or answers an HTTP error, or a
\* record without image_url, makes fetch_img_hash None; for a tracked key a
\* hash of None gives no IMAGE line and leaves image_hash and image_url as
\* they were, while the price and text sensors still act on the record, the
\* entry is stamped, and run() cannot have ended with an exception unless a
\* later fetch of a target raised.
C6_ImageFetchFailure ==
  /\ (step # None /\ (S.net \in NetFailures \/ S.p.image_url = None)) =>
       S.img_hash = None
  /\ (OnTracked /\ S.img_hash = None) =>
       /\ CountKind(StepLines, "IMAGE") = 0
       /\ StepEntry.image_hash = Old.image_hash
       /\ StepEntry.image_url = Old.image_url
       /\ CountKind(StepLines, "PRICE") =
            IF S.p.price_cents # None /\ S.p.price_cents # Old.price_cents
            THEN 1 ELSE 0
       /\ CountKind(StepLines, "TEXT") =
            IF S.p.text_hash # None /\ S.p.text_hash # Old.text_hash
            THEN 1 ELSE 0
       /\ StepEntry.last_seen = now
       /\ pc = "crashed" => (crash = "fetch" /\ ~fetched)

\* The GET of the image times out and the text sensor fires all the same.
C6_Witness ==
  /\ OnTracked
  /\ S.net = "timeout"
  /\ Old.image_hash # None
  /\ StepEntry.image_hash = Old.image_hash
  /\ CountKind(StepLines, "TEXT") = 1
  /\ CountKind(StepLines, "IMAGE") = 0

\* C7 - Empty text is no signal: for a tracked key whose stored text_hash is
\* the hash of a text that is not empty, a record whose card has no text has
\* no text_hash, appends no TEXT line and leaves the stored text_hash.
C7_EmptyTextNoSignal ==
  (/\ OnTracked
   /\ S.card # None
   /\ get_text(S.card[1]) = <<>>
   /\ Old.text_hash # None
   /\ Old.text_hash # Sha1(<<>>)) =>
    /\ S.p.text_hash = None
    /\ CountKind(StepLines, "TEXT") = 0
    /\ StepEntry.text_hash = Old.text_hash

\* C8 - A failed fetch of a target does not abort the run: a run in which the
\* fetch of a target raised still ends by returning, with its lines handed to
\* send_email and the state saved.
C8_TargetFetchFailure ==
  (pc \in {"done", "crashed"} /\ crash = "fetch") =>
    /\ pc = "done"
    /\ changes # <<>> => mailed = Some(changes)
    /\ file = FileOf(state)

\* C9 - A failed mail does not block the save: a run whose mail failed goes on
\* to save_state, and when it has ended the file holds the whole updated
\* state, which is what the next run loads.
C9_MailFailureSaves ==
  /\ (mailed # None /\ mail # "sent") => pc \in {"save", "writing", "done"}
  /\ (pc = "done" /\ mailed # None /\ mail # "sent") =>
       /\ file = FileOf(state)
       /\ ~LoadRaises(file)
       /\ load_state(file) = state

\* The mail of a run with a price change failed and the run has ended.
C9_Witness ==
  /\ pc = "done"
  /\ mail = "failed"
  /\ mailed = Some(changes)
  /\ CountKind(changes, "PRICE") = 1
  /\ state # loaded
  /\ load_state(file) = state

\* C10 - Atomic save: at every point of a run, and after a kill at any point,
\* the file holds either the whole state loaded at the start of the run or the
\* whole state after the run (or is still missing, when the run started
\* without a file).
C10_AtomicSave ==
  pc # "idle" =>
    IF file.exists
    THEN WellFormed(file.data) /\ Loads(file.data) \in {loaded, state}
    ELSE loaded = EmptyDict

\* C11 - Round trip: when save_state has written a state, load_state returns
\* a mapping equal to it, key by key and field by field; and load_state
\* returns the empty mapping when there is no state file.
C11_RoundTrip ==
  /\ pc = "done" =>
       LET d == load_state(file) IN
       /\ ~LoadRaises(file)
       /\ d = state
       /\ DOMAIN d = DOMAIN state
       /\ \A k \in DOMAIN state : \A i \in DOMAIN SortedFields :
            d[k][SortedFields[i]] = state[k][SortedFields[i]]
  /\ ~file.exists => (~LoadRaises(file) /\ load_state(file) = EmptyDict)
  /\ (pc \notin {"idle", "crashed"} /\ ~file.exists) => loaded = EmptyDict

\* A saved state of three entries, with a price of None and a price of 0.
C11_Witness ==
  /\ pc = "done"
  /\ Cardinality(DOMAIN state) = 3
  /\ \E k \in DOMAIN state : state[k].price_cents = None
  /\ \E k \in DOMAIN state : state[k].price_cents = Some(0)
  /\ \E k \in DOMAIN state : state[k].text_hash = None
  /\ load_state(file) = state

\* The keys of the records of this run.
BatchKeys == {Key(batch[i].rec.p.site, batch[i].rec.p.sku) : i \in DOMAIN batch}
\* A dict with the entries of the keys of this run stamped with its time.
Stamped(d) ==
  [k \in DOMAIN d |->
     IF k \in BatchKeys THEN [d[k] EXCEPT !.last_seen = now] ELSE d[k]]

\* C12 as stated - Deterministic persisted output: a run given the batch and
\* the image answers of the run before it, starting from the state that run
\* saved, saves a file identical to the one it started from.
C12_SameOutput ==
  (replay /\ pc = "done") => file = FileOf(loaded)

\* C12 as amended: such a run saves the file it started from with last_seen
\* of the keys of the batch set to its own timestamp, and nothing else
\* changed.
C12_SameOutputButLastSeen ==
  (replay /\ pc = "done") =>
    /\ file = FileOf(Stamped(loaded))
    /\ BatchKeys # {}
    /\ LET d == load_state(file) IN \A k \in BatchKeys : d[k].last_seen = now

\* The second run reported changes of a key the batch holds twice and still
\* saved what the first run saved, last_seen apart.
C12_Witness ==
  /\ replay
  /\ pc = "done"
  /\ changes # <<>>
  /\ state # loaded
  /\ file = FileOf(Stamped(loaded))
  /\ \E k \in DOMAIN loaded : k \notin BatchKeys

\* The place of a kind of line in the order NEW, PRICE, IMAGE, TEXT.
Rank(kind) ==
  CASE kind = "NEW" -> 1 [] kind = "PRICE" -> 2
    [] kind = "IMAGE" -> 3 [] kind = "TEXT" -> 4

\* C13 - Event order within a key: among the lines of a run, no line of a key
\* comes after a line of the same key of a later kind in the order NEW, PRICE,
\* IMAGE, TEXT; and a record of a tracked key appends a line for each of the
\* sensors that fire on it.
C13_EventOrder ==
  /\ \A i, j \in DOMAIN changes :
       (/\ i < j
        /\ changes[i].site = changes[j].site
        /\ changes[i].sku = changes[j].sku) =>
         Rank(changes[i].kind) <= Rank(changes[j].kind)
  /\ OnTracked =>
       Len(StepLines) = (IF PriceFires(Old, S.p) THEN 1 ELSE 0)
                      + (IF ImageFires(Old, S.img_hash) THEN 1 ELSE 0)
                      + (IF S.card # None /\ TextFires(Old, S.p) THEN 1 ELSE 0)

\* The lines of this run that are about the key of site and sku.
LinesOf(k) == {i \in DOMAIN changes : Key(changes[i].site, changes[i].sku) = k}

\* C14 - last_seen: a record leaves last_seen = now in the entry of its key,
\* whether a line was appended or not and also when the entry is created; when
\* the run has saved, every key of its batches has last_seen = now in the
\* file; and last_seen of a key the run loaded is never lower afterwards than
\* what was loaded.
C14_LastSeen ==
  /\ step # None => StepEntry.last_seen = now
  /\ pc \in {"notify", "save", "writing", "done"} =>
       \A k \in BatchKeys : state[k].last_seen = now
  /\ pc = "done" =>
       LET d == load_state(file) IN
       /\ \A k \in BatchKeys : d[k].last_seen = now
       /\ \A k \in DOMAIN loaded : d[k].last_seen >= loaded[k].last_seen
  /\ pc \notin {"idle", "crashed"} =>
       \A k \in DOMAIN loaded :
         k \in DOMAIN state /\ state[k].last_seen >= loaded[k].last_seen

\* A saved run that saw a tracked key on which no sensor fired and a key it
\* created, both stamped with its time.
C14_Witness ==
  /\ pc = "done"
  /\ \E k \in BatchKeys \cap DOMAIN loaded :
       /\ LinesOf(k) = {}
       /\ [state[k] EXCEPT !.last_seen = loaded[k].last_seen] = loaded[k]
       /\ load_state(file)[k].last_seen = now
       /\ loaded[k].last_seen < now
  /\ \E k \in BatchKeys \ DOMAIN loaded :
       load_state(file)[k].last_seen = now

\* The keys of the items of a file, in the order of the items.
FileKeys(f) == [i \in 1..(Len(f.data) - 2) |-> f.data[i + 1][1]]

\* C15 - Entries are never deleted: a run keeps every key it loaded, and a
\* saved run leaves them all in the file, each key once; a key it loaded that
\* is in none of its batches gets no line and keeps its entry as loaded,
\* last_seen included, in the state and in the saved file; the keys of the
\* state are those loaded and those of the batches.
C15_NeverDeleted ==
  /\ pc \notin {"idle", "crashed"} => DOMAIN loaded \subseteq DOMAIN state
  /\ pc \in {"kkiosk", "other", "notify", "save", "writing", "done"} =>
       LET seen == BatchKeys IN
       /\ \A k \in DOMAIN loaded \ seen :
            state[k] = loaded[k] /\ LinesOf(k) = {}
       /\ DOMAIN state = DOMAIN loaded \cup seen
  /\ pc = "done" =>
       LET d == load_state(file)
           keys == FileKeys(file)
       IN /\ DOMAIN loaded \subseteq DOMAIN d
          /\ \A k \in DOMAIN loaded \ BatchKeys : d[k] = loaded[k]
          /\ Len(keys) = Cardinality(DOMAIN d)
          /\ \A i, j \in DOMAIN keys : i # j => keys[i] # keys[j]

\* A saved run that reported changes and left alone a key that it loaded and
\* did not see.
C15_Witness ==
  /\ pc = "done"
  /\ changes # <<>>
  /\ \E k \in DOMAIN loaded \ BatchKeys :
       /\ load_state(file)[k] = loaded[k]
       /\ loaded[k].last_seen < now
  /\ Cardinality(DOMAIN load_state(file)) > Cardinality(DOMAIN loaded)

\* C16 - Text sensor: a record of a tracked key appends one TEXT line and
\* stores its text_hash when that is not None and differs from the stored one,
\* and otherwise appends no TEXT line and leaves the stored text_hash; a
\* kkiosk record has text_hash None.
C16_TextSensor ==
  /\ OnTracked =>
       IF S.p.text_hash # None /\ S.p.text_hash # Old.text_hash
       THEN /\ CountKind(StepLines, "TEXT") = 1
            /\ StepEntry.text_hash = S.p.text_hash
       ELSE /\ CountKind(StepLines, "TEXT") = 0
            /\ StepEntry.text_hash = Old.text_hash
  /\ (step # None /\ S.p.site = "kkiosk") => S.p.text_hash = None
  /\ \A i \in DOMAIN changes :
       changes[i].kind = "TEXT" => changes[i].site # "kkiosk"

\* The text of a tracked card changed, in a run that also saw a tracked kkiosk
\* product, which has no text_hash.
C16_Witness ==
  /\ OnTracked
  /\ S.p.text_hash # None
  /\ Old.text_hash # None
  /\ StepEntry.text_hash = S.p.text_hash
  /\ StepEntry.text_hash # Old.text_hash
  /\ CountKind(StepLines, "TEXT") = 1
  /\ \E i \in DOMAIN batch :
       /\ batch[i].rec.p.site = "kkiosk"
       /\ batch[i].rec.p.text_hash = None
       /\ Key("kkiosk", batch[i].rec.p.sku) \in DOMAIN loaded
       /\ state[Key("kkiosk", batch[i].rec.p.sku)].text_hash = None

\* C17 - Sensor frame: a record of a tracked key changes price_cents only when
\* the price sensor fires, image_hash and image_url only when the image sensor
\* fires, text_hash only when the text sensor fires, and besides these only
\* last_seen; it appends at most one line of each kind and no NEW line; and
\* site, sku, name and url of an entry stay as they were when the run loaded
\* it, whatever the records say.
C17_SensorFrame ==
  /\ OnTracked =>
       LET entry == StepEntry
           lines == StepLines
       IN /\ DOMAIN entry = DOMAIN Old
          /\ entry.site = Old.site
          /\ entry.sku = Old.sku
          /\ entry.name = Old.name
          /\ entry.url = Old.url
          /\ entry.price_cents # Old.price_cents =>
               PriceFires(Old, S.p) /\ CountKind(lines, "PRICE") = 1
          /\ (entry.image_hash # Old.image_hash
              \/ entry.image_url # Old.image_url) =>
               ImageFires(Old, S.img_hash) /\ CountKind(lines, "IMAGE") = 1
          /\ entry.text_hash # Old.text_hash =>
               /\ S.card # None
               /\ TextFires(Old, S.p)
               /\ CountKind(lines, "TEXT") = 1
          /\ \A k \in {"PRICE", "IMAGE", "TEXT"} : CountKind(lines, k) <= 1
          /\ CountKind(lines, "NEW") = 0
          /\ Len(lines) <= 3
  /\ pc \notin {"idle", "crashed"} =>
       \A k \in DOMAIN loaded :
         /\ state[k].site = loaded[k].site
         /\ state[k].sku = loaded[k].sku
         /\ state[k].name = loaded[k].name
         /\ state[k].url = loaded[k].url

\* A tracked product is seen under another name and another address: the
\* entry keeps the name and the address it was created with.
C17_Witness ==
  /\ OnTracked
  /\ S.p.name # Old.name
  /\ S.p.url # Old.url
  /\ StepEntry.name = Old.name
  /\ StepEntry.url = Old.url
  /\ StepEntry.last_seen # Old.last_seen
  /\ StepEntry = [Old EXCEPT !.last_seen = now]

\* The file is as the run found it: what load_state returned is what it holds.
FileAsLoaded ==
  IF file.exists THEN file = FileOf(loaded) ELSE loaded = EmptyDict

\* A step of a run that loads the state, and one that opens the file to write.
LoadStep == pc \in {"idle", "done", "crashed", "killed"} /\ runs' = runs + 1
OpenStep == pc = "save" /\ pc' = "writing"

\* C18 - Load once, save once, save last: the state is loaded in the first
\* step of a run and in no other, before any record; the file is opened for
\* writing in one step only, which follows the notification, which follows
\* the last record of the last target, and it changes only from then until
\* save_state returns; so until then, and in a run that has ended with an
\* exception before, the file is what the run loaded.
C18_LoadOnceSaveLast ==
  /\ [](/\ (pc \in {"kkiosk", "other", "notify", "save"}
            \/ (pc = "crashed" /\ crash \in {"fetch", "mail"})) => FileAsLoaded
        /\ (pc = "crashed" /\ crash = "load") => batch = <<>>)
  /\ [][/\ loaded' # loaded => (LoadStep /\ batch' = <<>>)
        /\ LoadStep => batch' = <<>>
        /\ file' # file => (OpenStep \/ (pc = "writing" /\ pc' = "writing"))
        /\ pc' = "writing" => pc \in {"save", "writing"}
        /\ (pc' = "save" /\ pc # "save") => pc = "notify"
        /\ (pc' = "notify" /\ pc # "notify") =>
             (pc = "other" /\ ti = Len(OTHER_TARGETS) /\ fetched)
        /\ (pc' = "other" /\ pc # "other") =>
             (pc = "kkiosk" /\ ti = Len(KKIOSK_URLS) /\ fetched)
        /\ (pc' = "kkiosk" /\ pc # "kkiosk") => LoadStep
        /\ pc = "done" => (pc' = "done" \/ LoadStep)]_vars

\* The fetch of the second target raised after a record of the first had
\* changed the state: the file is still the one that was loaded.
C18_Witness ==
  /\ pc = "crashed"
  /\ crash = "fetch"
  /\ batch # <<>>
  /\ changes # <<>>
  /\ state # loaded
  /\ file.exists
  /\ file = FileOf(loaded)
  /\ load_state(file) = loaded

\* The fields a sensor watches.
SensorFields == {"price_cents", "image_hash", "text_hash"}
\* No watched field that has a value in entry e is None in entry f.
KnownKept(e, f) == \A x \in SensorFields : e[x] # None => f[x] # None

\* C19 - Known values are never lost: a record of a tracked key leaves a
\* value in every watched field that had one, whatever was parsed or fetched;
\* so does a whole run for every entry it loaded, in its state and, once it
\* has saved, in the file.
C19_KnownValuesKept ==
  /\ OnTracked => KnownKept(Old, StepEntry)
  /\ pc \notin {"idle", "crashed"} =>
       \A k \in DOMAIN loaded : KnownKept(loaded[k], state[k])
  /\ pc = "done" =>
       LET d == load_state(file) IN
       \A k \in DOMAIN loaded : KnownKept(loaded[k], d[k])

\* A run saved after the image of a tracked product, whose hash was known,
\* could not be fetched.
C19_Witness ==
  /\ pc = "done"
  /\ \E i \in DOMAIN batch :
       LET k == Key(batch[i].rec.p.site, batch[i].rec.p.sku) IN
       /\ batch[i].rec.net \in NetFailures
       /\ k \in DOMAIN loaded
       /\ loaded[k].image_hash # None
       /\ load_state(file)[k].image_hash = loaded[k].image_hash
       /\ load_state(file)[k].last_seen = now

\* C20 - Notification step: while records are processed send_email has not
\* been called; once the run is past the notification, send_email has been
\* called if and only if there are lines, once, with all the lines in the
\* order in which they were appended; the call is made in the step after the
\* last record, when the file has not been opened for writing; and a run
\* without lines goes on to save the state without a call.
C20_NotificationStep ==
  /\ [](/\ pc \in {"kkiosk", "other", "notify"} =>
             (mailed = None /\ mail = "none")
        /\ pc \in {"save", "writing", "done"} =>
             /\ mailed = (IF changes # <<>> THEN Some(changes) ELSE None)
             /\ Len(mailed) <= 1
             /\ (mail = "none") = (changes = <<>>)
        /\ pc = "done" => file = FileOf(state))
  /\ [][/\ (mailed' # mailed /\ mailed' # None) =>
             /\ pc = "notify"
             /\ mailed = None
             /\ changes # <<>>
             /\ mailed' = Some(changes)
             /\ file' = file
             /\ FileAsLoaded
        /\ (pc = "notify" /\ pc' # "notify" /\ changes = <<>>) =>
             (pc' \in {"save", "killed"} /\ mailed' = None)]_vars

\* A run whose records changed nothing but last_seen has saved the state
\* without a call of send_email.
C20_Witness ==
  /\ pc = "done"
  /\ batch # <<>>
  /\ changes = <<>>
  /\ mailed = None
  /\ mail = "none"
  /\ state # loaded
  /\ file = FileOf(state)

====
